---------------------------- MODULE Spec2Model ----------------------------
(***************************************************************************)
(* A state-machine model of src/src/TMotorAPI.py (TMotor Control API v3.1):*)
(* the Motor session (power state, power-on timestamp, feedback snapshot), *)
(* its power management (enable, disable, update, the context manager) and *)
(* its command workflows (track_trajectory, set_velocity, set_torque,      *)
(* send_command, zero_position), run against a driver (TMotorManager) whose*)
(* calls may fail.  One thread of control: pc is its position in the       *)
(* method being executed, "idle" between calls.                            *)
(*                                                                         *)
(* Numbers are rationals <<n, d>> (d > 0, lowest terms); the arithmetic   *)
(* of TrajectoryGenerator rounds each result as binary floating point does,*)
(* to Precision significant bits.  Time is                                 *)
(* counted in control periods (1 / CONTROL_LOOP_FREQUENCY seconds).  The   *)
(* program uses a reading of time.time() only in a difference with a later *)
(* reading (time.time() - self._powerOnTime, time.time() - t0), so the     *)
(* model keeps each timestamp as the time elapsed since it was taken.      *)
(***************************************************************************)
EXTENDS Integers, Sequences, FiniteSets, TLC

---------------------------------------------------------------------------
(* Rational arithmetic *)

Abs(x) == IF x < 0 THEN -x ELSE x
Min(a, b) == IF a < b THEN a ELSE b

\* the element of a set of one element; {e(v) : v \in {x}} computes x once
Only(S) == CHOOSE r \in S : TRUE

RECURSIVE GCD(_, _)
GCD(a, b) == Only({ IF y = 0 THEN x ELSE GCD(y, x % y) : x \in {a}, y \in {b} })

\* x / y in lowest terms with a positive denominator, g the gcd of |x| and |y|
Lowest(x, y, g) == IF y < 0 THEN <<(-x) \div g, (-y) \div g>> ELSE <<x \div g, y \div g>>

Norm(n, d) ==
    Only({ Only({ Lowest(x, y, g) : g \in {GCD(Abs(x), Abs(y))} }) : x \in {n}, y \in {d} })

R(n) == <<n, 1>>
RAdd(a, b) == Only({ Norm(x[1] * y[2] + y[1] * x[2], x[2] * y[2]) : x \in {a}, y \in {b} })
RSub(a, b) == Only({ Norm(x[1] * y[2] - y[1] * x[2], x[2] * y[2]) : x \in {a}, y \in {b} })
\* x * y, g the gcds of the numerator of each with the denominator of the other
Product(x, y, g) ==
    Norm((x[1] \div g[1]) * (y[1] \div g[2]), (x[2] \div g[2]) * (y[2] \div g[1]))
RMul(a, b) ==
    Only({ Only({ Product(x, y, g) : g \in {<<GCD(Abs(x[1]), y[2]), GCD(Abs(y[1]), x[2])>>} }) :
           x \in {a}, y \in {b} })
RDiv(a, b) == Only({ RMul(a, IF y[1] < 0 THEN <<-y[2], -y[1]>> ELSE <<y[2], y[1]>>) : y \in {b} })
RLess(a, b) == Only({ x[1] * y[2] < y[1] * x[2] : x \in {a}, y \in {b} })
RLeq(a, b) == Only({ x[1] * y[2] <= y[1] * x[2] : x \in {a}, y \in {b} })
RAbs(a) == Only({ <<Abs(x[1]), x[2]>> : x \in {a} })
RPow(a, k) ==
    Only({ IF k = 0 THEN R(1)
           ELSE IF k = 1 THEN x
           ELSE IF k = 2 THEN RMul(x, x)
           ELSE IF k = 3 THEN RMul(x, RMul(x, x))
           ELSE IF k = 4 THEN RMul(RMul(x, x), RMul(x, x))
           ELSE RMul(x, RMul(RMul(x, x), RMul(x, x))) : x \in {a} })
Zero == R(0)

---------------------------------------------------------------------------
(* Floating-point arithmetic: every operation of Python on floats returns *)
(* the exact result rounded to the nearest representable number, ties to  *)
(* even                                                                   *)

\* the significant bits kept (53 in the float of the program)
Precision == 4

Pow2(k) == Only({ IF j >= 0 THEN R(2 ^ j) ELSE <<1, 2 ^ (-j)>> : j \in {k} })

\* the e with 2^e <= x < 2^(e+1), for x > 0
RECURSIVE Exponent(_)
Exponent(x) ==
    Only({ IF a[1] \div 2 >= a[2] THEN Exponent(RDiv(a, R(2))) + 1
           ELSE IF a[1] < a[2] THEN Exponent(RMul(a, R(2))) - 1
           ELSE 0 : a \in {x} })

\* the integer nearest to m >= 0, the even one of two equally near
Nearest(m) ==
    LET f == m[1] \div m[2]
        twice == 2 * (m[1] - f * m[2])
    IN  IF twice > m[2] \/ (twice = m[2] /\ f % 2 = 1) THEN f + 1 ELSE f

\* v # 0 rounded to a multiple of ulp
Rounded(v, ulp) ==
    Only({ RMul(R(IF v[1] < 0 THEN -q ELSE q), ulp) : q \in {Nearest(RDiv(RAbs(v), ulp))} })

\* x rounded to Precision significant bits
Fl(x) ==
    Only({ IF v[1] = 0 THEN Zero
           ELSE Only({ Rounded(v, ulp) :
                       ulp \in {Pow2(Exponent(RAbs(v)) - Precision + 1)} }) : v \in {x} })

FAdd(a, b) == Only({ Fl(RAdd(x, y)) : x \in {a}, y \in {b} })
FSub(a, b) == Only({ Fl(RSub(x, y)) : x \in {a}, y \in {b} })
FMul(a, b) == Only({ Fl(RMul(x, y)) : x \in {a}, y \in {b} })
FDiv(a, b) == Only({ Fl(RDiv(x, y)) : x \in {a}, y \in {b} })
FPow(a, k) == Only({ Fl(RPow(x, k)) : x \in {a} })

---------------------------------------------------------------------------
(* Program constants *)

CONTROL_LOOP_FREQUENCY == 100
\* seconds, as a rational, of k control periods
Seconds(k) == Norm(k, CONTROL_LOOP_FREQUENCY)
CONTROL_LOOP_PERIOD == Seconds(1)
STEP_COMMAND_THRESHOLD == Norm(2, 100)
ZERO_POSITION_SETTLE_TIME == Norm(5, 10)
ENABLE_SETTLE_TIME == Norm(1, 10)
defaultKp == R(10)
defaultKd == Norm(5, 10)

\* control periods in a sleep of d seconds
Ticks(d) == (d[1] * CONTROL_LOOP_FREQUENCY) \div d[2]

---------------------------------------------------------------------------
(* Bounds of the model *)

\* time.time() - self._powerOnTime is kept exactly below MaxUptime control
\* periods, and as MaxUptime from there on
MaxUptime == 2
\* the longest duration argument, in control periods
MaxDuration == 3
\* a sleep may overrun by up to this many control periods
MaxOverrun == 1
\* the thread may be held up for this many control periods between taking t0
\* and the first reading of the clock in a loop
MaxStall == 3
\* the system clock may be set back by this many control periods
MaxSetBack == 1

---------------------------------------------------------------------------
(* Inputs *)

\* what the driver may report after a commit
Feedback == { [position |-> R(1), velocity |-> R(-1), torque |-> R(2), temperature |-> R(30)],
              [position |-> R(2), velocity |-> R(1), torque |-> R(-2), temperature |-> R(40)] }

ZeroSnapshot == [position |-> Zero, velocity |-> Zero, torque |-> Zero, temperature |-> Zero]

Errors == {"NotEnabled", "DriverError", "ValueError", "KeyboardInterrupt"}

VARIABLES
    isEnabled,        \* Motor._isEnabled
    uptime,           \* time.time() - Motor._powerOnTime, in control periods
    lastPosition,     \* Motor._lastPosition
    lastVelocity,     \* Motor._lastVelocity
    lastTorque,       \* Motor._lastTorque
    lastTemperature,  \* Motor._lastTemperature
    gains,            \* the driver's armed gains [K, B]
    staged,           \* the driver's staged references [position, velocity, torque]
    pc,               \* position of the thread of control
    call,             \* the method being executed and its locals
    trace,            \* the driver calls made since the caller's last call began
    committed,        \* the references handed to the most recent update() among them
    lastRead,         \* what that update() read: "fresh", "stale", "partial", "none"
    result,           \* how the caller's last call ended
    scope,            \* the with-statement: "none", "entering", "body", "exiting"
    pending           \* the error raised in the with-body, while __exit__ runs

snapshotVars == <<lastPosition, lastVelocity, lastTorque, lastTemperature>>
driverVars == <<gains, staged>>
historyVars == <<trace, committed, lastRead>>
sessionVars == <<isEnabled, uptime>>
vars == <<isEnabled, uptime, lastPosition, lastVelocity, lastTorque,
          lastTemperature, gains, staged, committed, lastRead, pc, call, trace,
          result, scope, pending>>

Snapshot == [position |-> lastPosition, velocity |-> lastVelocity,
             torque |-> lastTorque, temperature |-> lastTemperature]

NoCall == [op |-> "none", targetPos |-> Zero, targetVel |-> Zero,
           targetTorque |-> Zero, duration |-> Zero, kp |-> Zero, kd |-> Zero,
           trajectoryType |-> "none", startPos |-> Zero, elapsed |-> 0]

NoResult == [op |-> "none", outcome |-> "none", value |-> {}]

NoGains == [K |-> Zero, B |-> Zero]
NoCommand == [position |-> Zero, velocity |-> Zero, torque |-> Zero]

\* Motor.__init__: the session as constructed, with its driver bound
Init ==
    /\ isEnabled = FALSE
    /\ uptime = MaxUptime
    /\ lastPosition = Zero
    /\ lastVelocity = Zero
    /\ lastTorque = Zero
    /\ lastTemperature = Zero
    /\ gains = NoGains
    /\ staged = NoCommand
    /\ committed = {}
    /\ lastRead = "none"
    /\ pc = "idle"
    /\ call = NoCall
    /\ trace = <<>>
    /\ result = NoResult
    /\ scope = "none"
    /\ pending = "none"

---------------------------------------------------------------------------
(* Calls, returns and raises *)

\* the caller may begin a call: nothing is executing
CanCall == pc = "idle"

\* time.time() - self._powerOnTime after `ticks` more control periods
Later(ticks) == Min(uptime + ticks, MaxUptime)

Goto(p) == pc' = p /\ UNCHANGED <<call, result, scope, pending>>

\* a call of the caller begins: what is recorded of the driver calls starts anew
ResetHistory == trace' = <<>> /\ committed' = {} /\ lastRead' = "none"

\* a call ends with `outcome` ("ok" or an error) and return value `value`
Finish(op, outcome, value) ==
    /\ call' = NoCall
    /\ IF scope = "entering"
       THEN \* __enter__, lines 246-249: self.enable(); return self
            /\ scope' = IF outcome = "ok" THEN "body" ELSE "none"
            /\ pc' = "idle"
            /\ pending' = "none"
            /\ result' = [op |-> "__enter__", outcome |-> outcome, value |-> {}]
       ELSE IF scope = "exiting"
       THEN \* __exit__, lines 251-254: self.disable(); return False
            /\ scope' = "none"
            /\ pc' = "idle"
            /\ pending' = "none"
            /\ result' = [op |-> "with",
                          outcome |-> IF outcome # "ok" THEN outcome
                                      ELSE IF pending = "none" THEN "ok" ELSE pending,
                          value |-> {}]
       ELSE IF scope = "body" /\ outcome # "ok"
       THEN \* an error raised in the with-body: __exit__ is called with it
            /\ scope' = "exiting"
            /\ pc' = "exit"
            /\ pending' = outcome
            /\ result' = [op |-> op, outcome |-> outcome, value |-> value]
       ELSE /\ pc' = "idle"
            /\ result' = [op |-> op, outcome |-> outcome, value |-> value]
            /\ UNCHANGED <<scope, pending>>

Return(op) == Finish(op, "ok", {})
Raise(op, err) == Finish(op, err, {})

\* a workflow that runs without the guard
WorkflowGuardSkipped == FALSE

\* the guard of every workflow, lines 404, 485, 535, 589, 609: not
\* self._isEnabled (the manager is bound from construction on)
NotEnabled == ~isEnabled

\* update() without the guard
UpdateGuardSkipped == FALSE

\* the guard of update(), line 338
UpdateNotEnabled == ~isEnabled

\* the guarded call fails before doing anything
RaiseNotEnabled(op) ==
    /\ ResetHistory
    /\ Raise(op, "NotEnabled")
    /\ UNCHANGED <<sessionVars, snapshotVars, driverVars>>

---------------------------------------------------------------------------
(* The accessors, lines 258-276: each returns its field of the snapshot, *)
(* in POWERED and in UNPOWERED                                           *)

Position == lastPosition
Velocity == lastVelocity
Torque == lastTorque
Temperature == lastTemperature

---------------------------------------------------------------------------
(* Motor.update *)

\* the snapshot fields in the order update() assigns them, lines 346-349
SnapshotFields == <<"position", "velocity", "torque", "temperature">>

\* how many of the four assignments update() completes, for the failure points
\* the model draws: none when self._manager.update() raises, three when
\* self._manager.get_temperature_celsius() raises, all four when nothing does
Reads == {0, Len(SnapshotFields) - 1, Len(SnapshotFields)}

\* a failed read that clears the snapshot
SnapshotClearedOnError(n, fb) == IF n = Len(SnapshotFields) THEN fb ELSE ZeroSnapshot

\* the snapshot after the first n assignments, the driver reporting fb; the
\* fields after the n-th keep their values
UpdatedSnapshot(n, fb) ==
    [f \in DOMAIN Snapshot |->
        IF \E i \in 1..n : SnapshotFields[i] = f THEN fb[f] ELSE Snapshot[f]]

\* update() raising the driver's error again
UpdateReraises(n) == n < Len(SnapshotFields)

\* whether update() propagates an error of the driver raised in its try block:
\* it is caught and logged, lines 357-365
UpdatePropagates(n) == FALSE

\* what update() did to the snapshot: "fresh" when all four fields were
\* assigned, "stale" when none was, "partial" otherwise
ReadKind(n) == IF n = Len(SnapshotFields) THEN "fresh" ELSE IF n = 0 THEN "stale" ELSE "partial"

\* update() in POWERED: the commit of the references st, then the first n of
\* the four snapshot assignments; tr is the trace up to the commit
DoUpdate(tr, st, n, fb) ==
    /\ trace' = Append(tr, "commit")
    /\ committed' = {st}
    /\ lastRead' = ReadKind(n)
    /\ lastPosition' = UpdatedSnapshot(n, fb).position
    /\ lastVelocity' = UpdatedSnapshot(n, fb).velocity
    /\ lastTorque' = UpdatedSnapshot(n, fb).torque
    /\ lastTemperature' = UpdatedSnapshot(n, fb).temperature

\* the caller calls update()
Update ==
    /\ CanCall
    /\ IF UpdateNotEnabled
       THEN RaiseNotEnabled("update")
       ELSE \E n \in Reads, fb \in Feedback :
            /\ DoUpdate(<<>>, staged, n, fb)
            /\ IF UpdatePropagates(n)
               THEN Raise("update", "DriverError")
               ELSE Finish("update", "ok", {UpdatedSnapshot(n, fb)})
            /\ UNCHANGED <<sessionVars, gains, staged>>

---------------------------------------------------------------------------
(* Staging references and committing them *)

Writes3(p, v, tau) == << <<"position", p>>, <<"velocity", v>>, <<"torque", tau>> >>

\* the staged references after the first k property assignments of writes
RECURSIVE Staged(_, _, _)
Staged(st, writes, k) ==
    IF k = 0 THEN st
    ELSE [Staged(st, writes, k - 1) EXCEPT ![writes[k][1]] = writes[k][2]]

\* the assignments attempted when the first k succeed
Attempted(writes, k) == [i \in 1..Min(k + 1, Len(writes)) |-> writes[i][1]]

\* the property assignments of writes in order, then self.update(); the
\* driver may raise in any assignment, which ends the method op with the
\* error; otherwise the method goes on with Then
StageAndUpdate(op, writes, Then) ==
    /\ \E k \in 0..Len(writes) :
        /\ staged' = Staged(staged, writes, k)
        /\ IF k < Len(writes)
           THEN /\ trace' = trace \o Attempted(writes, k)
                /\ Raise(op, "DriverError")
                /\ UNCHANGED <<snapshotVars, committed, lastRead>>
           ELSE \E n \in Reads, fb \in Feedback :
                /\ DoUpdate(trace \o Attempted(writes, k), staged', n, fb)
                /\ IF UpdatePropagates(n) THEN Raise(op, "DriverError") ELSE Then
    /\ UNCHANGED <<sessionVars, gains>>

---------------------------------------------------------------------------
(* Motor.enable *)

\* enable() without the early return
EnableNeverNoOp == FALSE

\* enable() returns at once when already enabled, lines 286-288
EnableIsNoOp == isEnabled

\* enable() swallowing the driver's error
PowerOnErrorSwallowed(ok) == FALSE

\* whether enable() propagates an error of the driver's __enter__: it is
\* logged and raised again, lines 304-306
PowerOnPropagates(ok) == ~ok

\* enable() is called, by the caller or by __enter__
Enable ==
    /\ \/ CanCall /\ scope \in {"none", "body"}
       \/ pc = "enter"
    /\ ResetHistory
    /\ IF EnableIsNoOp
       THEN Return("enable")
       ELSE /\ pc' = "enable_powerOn"
            /\ call' = [NoCall EXCEPT !.op = "enable"]
            /\ result' = NoResult
            /\ UNCHANGED <<scope, pending>>
    /\ UNCHANGED <<sessionVars, snapshotVars, driverVars>>

\* line 294: self._manager.__enter__()
EnablePowerOn ==
    /\ pc = "enable_powerOn"
    /\ trace' = Append(trace, "powerOn")
    /\ UNCHANGED <<committed, lastRead>>
    /\ \E ok \in BOOLEAN :
        IF ok THEN Goto("enable_mark")
        ELSE IF PowerOnPropagates(ok) THEN Raise("enable", "DriverError")
        ELSE Return("enable")
    /\ UNCHANGED <<sessionVars, snapshotVars, driverVars>>

\* enable() keeping the power-on timestamp it found
PowerOnTimeKept == uptime

\* line 296: self._powerOnTime = time.time(); time.time() - self._powerOnTime
\* right after the assignment
PowerOnTimeFresh == 0

\* lines 295-296: self._isEnabled = True; self._powerOnTime = time.time()
EnableMark ==
    /\ pc = "enable_mark"
    /\ isEnabled' = TRUE
    /\ uptime' = PowerOnTimeFresh
    /\ Goto("enable_settle")
    /\ UNCHANGED <<snapshotVars, driverVars, historyVars>>

\* line 298: time.sleep(0.1)
EnableSettle ==
    /\ pc = "enable_settle"
    /\ \E over \in 0..MaxOverrun : uptime' = Later(Ticks(ENABLE_SETTLE_TIME) + over)
    /\ Goto("enable_update")
    /\ UNCHANGED <<isEnabled, snapshotVars, driverVars, historyVars>>

\* line 299: self.update(), and the return
EnableUpdate ==
    /\ pc = "enable_update"
    /\ StageAndUpdate("enable", <<>>, Return("enable"))

---------------------------------------------------------------------------
(* Motor.disable *)

\* disable() does nothing unless enabled, line 314
DisableIsNoOp == ~isEnabled

\* self._isEnabled after self._manager.__exit__() ended ok / raised: the
\* assignment of line 318 follows the driver call inside the try
EnabledAfterPowerOff(ok) == IF ok THEN FALSE ELSE isEnabled

\* disable() raising the driver's error again
DisableReraises(ok) == ~ok

\* whether disable() propagates an error of the driver's __exit__: it is
\* caught and logged, lines 324-325
DisablePropagates(ok) == FALSE

\* disable() is called, by the caller or by __exit__
Disable ==
    /\ \/ CanCall /\ scope \in {"none", "body"}
       \/ pc = "exit"
    /\ ResetHistory
    /\ IF DisableIsNoOp
       THEN Return("disable")
       ELSE /\ pc' = "disable_powerOff"
            /\ call' = [NoCall EXCEPT !.op = "disable"]
            /\ result' = NoResult
            /\ UNCHANGED <<scope, pending>>
    /\ UNCHANGED <<sessionVars, snapshotVars, driverVars>>

\* lines 315-325: self._manager.__exit__(None, None, None), then
\* self._isEnabled = False; an error of the driver is caught
DisablePowerOff ==
    /\ pc = "disable_powerOff"
    /\ trace' = Append(trace, "powerOff")
    /\ UNCHANGED <<committed, lastRead>>
    /\ \E ok \in BOOLEAN :
        /\ isEnabled' = EnabledAfterPowerOff(ok)
        /\ IF DisablePropagates(ok) THEN Raise("disable", "DriverError")
           ELSE Return("disable")
    /\ UNCHANGED <<uptime, snapshotVars, driverVars>>

---------------------------------------------------------------------------
(* The context manager: with Motor(...) as motor: <body> *)

\* the with-statement is entered: __enter__ is called
ScopeEnter ==
    /\ CanCall
    /\ scope = "none"
    /\ scope' = "entering"
    /\ pc' = "enter"
    /\ ResetHistory
    /\ result' = NoResult
    /\ UNCHANGED <<sessionVars, snapshotVars, driverVars, call, pending>>

\* the body ends normally: __exit__ is called
ScopeLeave ==
    /\ CanCall
    /\ scope = "body"
    /\ scope' = "exiting"
    /\ pc' = "exit"
    /\ ResetHistory
    /\ result' = NoResult
    /\ UNCHANGED <<sessionVars, snapshotVars, driverVars, call, pending>>

---------------------------------------------------------------------------
(* TrajectoryGenerator *)

\* (position, velocity) of the minimum-jerk profile, lines 123-144
minimum_jerk(startPos, endPos, currentTime, totalDuration) ==
    IF RLeq(totalDuration, currentTime) THEN <<endPos, Zero>>
    ELSE LET tau == FDiv(currentTime, totalDuration)
             posDelta == FSub(endPos, startPos)
             s == FAdd(FSub(FMul(R(10), FPow(tau, 3)), FMul(R(15), FPow(tau, 4))),
                       FMul(R(6), FPow(tau, 5)))
             sDot == FDiv(FAdd(FSub(FMul(R(30), FPow(tau, 2)), FMul(R(60), FPow(tau, 3))),
                               FMul(R(30), FPow(tau, 4))), totalDuration)
         IN  <<FAdd(startPos, FMul(posDelta, s)), FMul(posDelta, sDot)>>

\* (position, velocity) of the cubic profile, lines 146-159
cubic(startPos, endPos, currentTime, totalDuration) ==
    IF RLeq(totalDuration, currentTime) THEN <<endPos, Zero>>
    ELSE LET tau == FDiv(currentTime, totalDuration)
             posDelta == FSub(endPos, startPos)
             s == FAdd(FMul(R(-2), FPow(tau, 3)), FMul(R(3), FPow(tau, 2)))
             sDot == FDiv(FAdd(FMul(R(-6), FPow(tau, 2)), FMul(R(6), tau)), totalDuration)
         IN  <<FAdd(startPos, FMul(posDelta, s)), FMul(posDelta, sDot)>>

\* (position, velocity) of the linear profile, lines 161-170
linear(startPos, endPos, currentTime, totalDuration) ==
    IF RLeq(totalDuration, currentTime) THEN <<endPos, Zero>>
    ELSE LET posDelta == FSub(endPos, startPos)
             velocity == FDiv(posDelta, totalDuration)
         IN  <<FAdd(startPos, FMul(velocity, currentTime)), velocity>>

\* a fourth profile name taken as known
TrajectoryTypesWithSpline == {"minimum_jerk", "cubic", "linear", "spline"}

\* lines 428-433: the profile names track_trajectory() knows
TrajectoryTypes == {"minimum_jerk", "cubic", "linear"}

\* trajFunc(startPos, targetPos, t, duration), lines 428-433 and 449
trajFunc(type, startPos, endPos, currentTime, totalDuration) ==
    IF type = "minimum_jerk" THEN minimum_jerk(startPos, endPos, currentTime, totalDuration)
    ELSE IF type = "cubic" THEN cubic(startPos, endPos, currentTime, totalDuration)
    ELSE linear(startPos, endPos, currentTime, totalDuration)

---------------------------------------------------------------------------
(* The arguments the caller passes *)

\* an optional argument left out
None == <<>>
Positions == {R(0), R(2)}
Velocities == {R(1)}
Torques == {R(3)}
KpArgs == {None}
KdArgs == {None}
TypeArgs == TrajectoryTypes \cup {"spline"}
Durations == {Seconds(k) : k \in -1..MaxDuration}

\* time.time() - t0, in seconds
Elapsed == Seconds(call.elapsed)

\* the loop going on for one more tick when the elapsed time equals the duration
LoopGoesOnAtDuration == RLeq(Elapsed, call.duration)

\* lines 445, 506, 556: the loop goes on while the elapsed time is below the
\* duration
LoopGoesOn == RLess(Elapsed, call.duration)

\* line 457, 511, 561: time.sleep(CONTROL_LOOP_PERIOD)
LoopSleep(back) ==
    /\ \E over \in 0..MaxOverrun :
        /\ uptime' = Later(Ticks(CONTROL_LOOP_PERIOD) + over)
        /\ call' = [call EXCEPT !.elapsed = @ + Ticks(CONTROL_LOOP_PERIOD) + over]
    /\ pc' = back
    /\ UNCHANGED <<isEnabled, snapshotVars, driverVars, historyVars, result, scope, pending>>

\* lines 438-444, 505-506, 555-556: between t0 = time.time() and the first
\* time.time() - t0 the thread may be held up
ClockStall ==
    /\ pc \in {"track_loop", "velocity_loop", "torque_loop"}
    /\ call.elapsed = 0
    /\ call' = [call EXCEPT !.elapsed = MaxStall]
    /\ uptime' = Later(MaxStall)
    /\ UNCHANGED <<isEnabled, snapshotVars, driverVars, historyVars, pc, result,
                   scope, pending>>

\* lines 457, 511, 561 with 467, 519, 567: the caller's thread is interrupted
\* (SIGINT) while the loop sleeps; KeyboardInterrupt is not an Exception, so the
\* except clause of the workflow does not see it and it leaves the method
Interrupt ==
    /\ pc \in {"track_sleep", "velocity_sleep", "torque_sleep"}
    /\ Raise(call.op, "KeyboardInterrupt")
    /\ UNCHANGED <<sessionVars, snapshotVars, driverVars, historyVars>>

\* self._manager.set_impedance_gains_real_unit(K=k, B=b): the driver may raise,
\* which ends the method op; otherwise the method goes on with Then
ArmGains(op, k, b, Then) ==
    /\ trace' = Append(trace, "setGains")
    /\ UNCHANGED <<committed, lastRead>>
    /\ \E ok \in BOOLEAN :
        IF ok THEN gains' = [K |-> k, B |-> b] /\ Then
        ELSE UNCHANGED gains /\ Raise(op, "DriverError")
    /\ UNCHANGED <<sessionVars, snapshotVars, staged>>

\* a guarded method is called with the locals c
BeginCall(c) ==
    /\ ResetHistory
    /\ pc' = c.op
    /\ call' = c
    /\ result' = NoResult
    /\ UNCHANGED <<sessionVars, snapshotVars, driverVars, scope, pending>>

---------------------------------------------------------------------------
(* Motor.track_trajectory *)

\* the threshold compared with < instead of <=
IsStepCommandStrict(duration) == RLess(duration, STEP_COMMAND_THRESHOLD)

\* line 416: duration <= STEP_COMMAND_THRESHOLD
IsStepCommand(duration) == RLeq(duration, STEP_COMMAND_THRESHOLD)

\* the caller calls track_trajectory(targetPos, duration, kp, kd, trajectoryType)
TrackTrajectory ==
    \E targetPos \in Positions, duration \in Durations, kp \in KpArgs,
       kd \in KdArgs, type \in TypeArgs :
        /\ CanCall
        /\ IF NotEnabled
           THEN RaiseNotEnabled("track_trajectory")
           ELSE BeginCall([NoCall EXCEPT !.op = "track_trajectory",
                    !.targetPos = targetPos, !.duration = duration,
                    !.kp = IF kp = None THEN defaultKp ELSE kp,
                    !.kd = IF kd = None THEN defaultKd ELSE kd,
                    !.trajectoryType = type])

\* lines 414-438: the gains, the choice of the sub-mode and of the profile
TrackGains ==
    /\ pc = "track_trajectory"
    /\ ArmGains("track_trajectory", call.kp, call.kd,
         IF IsStepCommand(call.duration)
         THEN Goto("track_step")
         ELSE IF call.trajectoryType \in TrajectoryTypes
         THEN /\ pc' = "track_loop"
              /\ call' = [call EXCEPT !.startPos = lastPosition, !.elapsed = 0]
              /\ UNCHANGED <<result, scope, pending>>
         ELSE Raise("track_trajectory", "ValueError"))

\* lines 417-425: the step position mode
TrackStep ==
    /\ pc = "track_step"
    /\ StageAndUpdate("track_trajectory", Writes3(call.targetPos, Zero, Zero),
                      Return("track_trajectory"))

\* the final command left out
NoFinalReference(targetPos) == <<>>

\* lines 460-462: the final position, with zero velocity and zero torque
FinalReference(targetPos) == Writes3(targetPos, Zero, Zero)

\* lines 444-455: one tick of the trajectory loop
TrackTick ==
    /\ pc = "track_loop"
    /\ LoopGoesOn
    /\ \E pv \in {trajFunc(call.trajectoryType, call.startPos, call.targetPos,
                            Elapsed, call.duration)} :
          StageAndUpdate("track_trajectory", Writes3(pv[1], pv[2], Zero),
                         Goto("track_sleep"))

\* line 457
TrackSleep == pc = "track_sleep" /\ LoopSleep("track_loop")

\* lines 445-446 and 459-465: the loop's exit and the final position
TrackFinal ==
    /\ pc = "track_loop"
    /\ ~LoopGoesOn
    /\ StageAndUpdate("track_trajectory", FinalReference(call.targetPos),
                      Return("track_trajectory"))

---------------------------------------------------------------------------
(* Motor.set_velocity *)

\* duration 0 sent into the hold loop
IsSingleCommandStrict(duration) == RLess(duration, Zero)

\* lines 497 and 549: duration <= 0
IsSingleCommand(duration) == RLeq(duration, Zero)

\* the caller calls set_velocity(targetVel, kd, duration)
SetVelocity ==
    \E targetVel \in Velocities, kd \in KdArgs, duration \in Durations :
        /\ CanCall
        /\ IF NotEnabled
           THEN RaiseNotEnabled("set_velocity")
           ELSE BeginCall([NoCall EXCEPT !.op = "set_velocity",
                    !.targetVel = targetVel, !.duration = duration,
                    !.kd = IF kd = None THEN defaultKd ELSE kd])

\* the position gain of the trajectory mode kept for the velocity mode
VelocityPositionGainKept == defaultKp

\* line 495: K=0.0, the position gain of the velocity mode
VelocityPositionGain == Zero

\* lines 495-505: the gains and the choice between one command and the loop
VelocityGains ==
    /\ pc = "set_velocity"
    /\ ArmGains("set_velocity", VelocityPositionGain, call.kd,
         IF IsSingleCommand(call.duration)
         THEN Goto("velocity_single")
         ELSE /\ pc' = "velocity_loop"
              /\ call' = [call EXCEPT !.elapsed = 0]
              /\ UNCHANGED <<result, scope, pending>>)

\* lines 498-502: the single command
VelocitySingle ==
    /\ pc = "velocity_single"
    /\ StageAndUpdate("set_velocity", Writes3(lastPosition, call.targetVel, Zero),
                      Return("set_velocity"))

\* lines 506-510: one tick of the hold loop
VelocityTick ==
    /\ pc = "velocity_loop"
    /\ LoopGoesOn
    /\ StageAndUpdate("set_velocity", Writes3(lastPosition, call.targetVel, Zero),
                      Goto("velocity_sleep"))

\* line 511
VelocitySleep == pc = "velocity_sleep" /\ LoopSleep("velocity_loop")

\* the stop command left out
VelocityStopLeftOut(position) == <<>>

\* lines 514-516: the stop command of set_velocity
VelocityStopReference(position) == Writes3(position, Zero, Zero)

\* lines 513-518: the stop command
VelocityStop ==
    /\ pc = "velocity_loop"
    /\ ~LoopGoesOn
    /\ StageAndUpdate("set_velocity", VelocityStopReference(lastPosition),
                      Return("set_velocity"))

---------------------------------------------------------------------------
(* Motor.set_torque *)

\* the caller calls set_torque(targetTorque, duration)
SetTorque ==
    \E targetTorque \in Torques, duration \in Durations :
        /\ CanCall
        /\ IF NotEnabled
           THEN RaiseNotEnabled("set_torque")
           ELSE BeginCall([NoCall EXCEPT !.op = "set_torque",
                    !.targetTorque = targetTorque, !.duration = duration])

\* lines 547-555: the gains and the choice between one command and the loop
TorqueGains ==
    /\ pc = "set_torque"
    /\ ArmGains("set_torque", Zero, Zero,
         IF IsSingleCommand(call.duration)
         THEN Goto("torque_single")
         ELSE /\ pc' = "torque_loop"
              /\ call' = [call EXCEPT !.elapsed = 0]
              /\ UNCHANGED <<result, scope, pending>>)

\* lines 550-553: the single command
TorqueSingle ==
    /\ pc = "torque_single"
    /\ StageAndUpdate("set_torque", Writes3(lastPosition, Zero, call.targetTorque),
                      Return("set_torque"))

\* lines 556-560: one tick of the hold loop
TorqueTick ==
    /\ pc = "torque_loop"
    /\ LoopGoesOn
    /\ StageAndUpdate("set_torque", Writes3(lastPosition, Zero, call.targetTorque),
                      Goto("torque_sleep"))

\* line 561
TorqueSleep == pc = "torque_sleep" /\ LoopSleep("torque_loop")

\* line 564: the stop command of set_torque
TorqueStopReference == << <<"torque", Zero>> >>

\* lines 563-566: the stop command, which stages the torque alone
TorqueStop ==
    /\ pc = "torque_loop"
    /\ ~LoopGoesOn
    /\ StageAndUpdate("set_torque", TorqueStopReference, Return("set_torque"))

---------------------------------------------------------------------------
(* Motor.send_command *)

\* the caller calls send_command(targetPos, targetVel, kp, kd, feedforwardTorque)
SendCommand ==
    \E targetPos \in Positions, targetVel \in Velocities, kp \in {R(5)},
       kd \in {defaultKd}, feedforwardTorque \in Torques :
        /\ CanCall
        /\ IF NotEnabled
           THEN RaiseNotEnabled("send_command")
           ELSE BeginCall([NoCall EXCEPT !.op = "send_command",
                    !.targetPos = targetPos, !.targetVel = targetVel,
                    !.targetTorque = feedforwardTorque, !.kp = kp, !.kd = kd])

\* line 594
SendGains ==
    /\ pc = "send_command"
    /\ ArmGains("send_command", call.kp, call.kd, Goto("send_stage"))

\* lines 597-600
SendStage ==
    /\ pc = "send_stage"
    /\ StageAndUpdate("send_command",
                      Writes3(call.targetPos, call.targetVel, call.targetTorque),
                      Return("send_command"))

---------------------------------------------------------------------------
(* Motor.zero_position *)

\* the caller calls zero_position()
ZeroPosition ==
    /\ CanCall
    /\ IF NotEnabled
       THEN RaiseNotEnabled("zero_position")
       ELSE BeginCall([NoCall EXCEPT !.op = "zero_position"])

\* line 614: self._manager.zero_position()
ZeroDriver ==
    /\ pc = "zero_position"
    /\ trace' = Append(trace, "zeroPosition")
    /\ UNCHANGED <<committed, lastRead>>
    /\ \E ok \in BOOLEAN :
        IF ok THEN Goto("zero_settle") ELSE Raise("zero_position", "DriverError")
    /\ UNCHANGED <<sessionVars, snapshotVars, driverVars>>

\* line 615: time.sleep(ZERO_POSITION_SETTLE_TIME)
ZeroSettle ==
    /\ pc = "zero_settle"
    /\ \E over \in 0..MaxOverrun : uptime' = Later(Ticks(ZERO_POSITION_SETTLE_TIME) + over)
    /\ Goto("zero_update")
    /\ UNCHANGED <<isEnabled, snapshotVars, driverVars, historyVars>>

\* line 616: self.update(), and the return
ZeroUpdate ==
    /\ pc = "zero_update"
    /\ StageAndUpdate("zero_position", <<>>, Return("zero_position"))

---------------------------------------------------------------------------

Next ==
    \/ Update
    \/ Enable \/ EnablePowerOn \/ EnableMark \/ EnableSettle \/ EnableUpdate
    \/ Disable \/ DisablePowerOff
    \/ ScopeEnter \/ ScopeLeave
    \/ TrackTrajectory \/ TrackGains \/ TrackStep \/ TrackTick \/ TrackSleep \/ TrackFinal
    \/ SetVelocity \/ VelocityGains \/ VelocitySingle \/ VelocityTick \/ VelocitySleep
    \/ VelocityStop
    \/ SetTorque \/ TorqueGains \/ TorqueSingle \/ TorqueTick \/ TorqueSleep \/ TorqueStop
    \/ SendCommand \/ SendGains \/ SendStage
    \/ ZeroPosition \/ ZeroDriver \/ ZeroSettle \/ ZeroUpdate
    \/ ClockStall \/ Interrupt

Spec == Init /\ [][Next]_vars

---------------------------------------------------------------------------
(* The caller's thread keeps running *)

\* a step of a timed loop: a tick, its sleep, or the exit with the final or
\* stop command
LoopStep ==
    \/ TrackTick \/ TrackSleep \/ TrackFinal
    \/ VelocityTick \/ VelocitySleep \/ VelocityStop
    \/ TorqueTick \/ TorqueSleep \/ TorqueStop

\* the caller calls a timed workflow as the first command of the session
FirstTrajectory == staged = NoCommand /\ TrackTrajectory
FirstVelocity == staged = NoCommand /\ SetVelocity
FirstTorque == staged = NoCommand /\ SetTorque

\* a caller that powers the session on and runs a first command
FirstCommandNext ==
    \/ Enable \/ EnablePowerOn \/ EnableMark \/ EnableSettle \/ EnableUpdate
    \/ FirstTrajectory \/ TrackGains \/ TrackStep \/ TrackTick \/ TrackSleep \/ TrackFinal
    \/ FirstVelocity \/ VelocityGains \/ VelocitySingle \/ VelocityTick \/ VelocitySleep
    \/ VelocityStop
    \/ FirstTorque \/ TorqueGains \/ TorqueSingle \/ TorqueTick \/ TorqueSleep \/ TorqueStop
    \/ ClockStall \/ Interrupt

\* the session of that caller, with a thread that, inside a timed loop, takes
\* its next step: the driver calls and time.sleep() of lines 443-463, 506-517
\* and 556-565 return or raise
FairSpec == Init /\ [][FirstCommandNext]_vars /\ WF_vars(LoopStep)

---------------------------------------------------------------------------
(* The system clock set back *)

\* lines 438-444, 505-506, 555-556: time.time() is the wall clock; between
\* t0 = time.time() and the first time.time() - t0 of a loop the system clock
\* may be set back, here by MaxSetBack control periods. The session has been
\* powered for ENABLE_SETTLE_TIME, which is longer than MaxUptime and
\* MaxSetBack control periods together, so uptime stays as it is
ClockSetBack ==
    /\ pc \in {"track_loop", "velocity_loop", "torque_loop"}
    /\ call.elapsed = 0
    /\ trace = <<"setGains">>
    /\ call' = [call EXCEPT !.elapsed = -MaxSetBack]
    /\ UNCHANGED <<sessionVars, snapshotVars, driverVars, historyVars, pc, result,
                   scope, pending>>

\* a caller that powers the session on and tracks a first trajectory
SteppedClockNext ==
    \/ Enable \/ EnablePowerOn \/ EnableMark \/ EnableSettle \/ EnableUpdate
    \/ FirstTrajectory \/ TrackGains \/ TrackStep \/ TrackTick \/ TrackSleep \/ TrackFinal
    \/ ClockStall \/ ClockSetBack

\* the session of that caller under a system clock that may be set back
SteppedClockSpec == Init /\ [][SteppedClockNext]_vars

---------------------------------------------------------------------------
(* MotorConfig and the construction of a Motor *)

NL == "\n"
Digits == {"0", "1", "2", "3", "4", "5", "6", "7", "8", "9"}

\* CAN_INTERFACE_PATTERN.match(name), line 38: re.match of ^can\d+$, whose $
\* matches at the end of the string and also just before a newline that ends it
MatchesPattern(name) ==
    /\ Len(name) >= 4
    /\ SubSeq(name, 1, 3) = <<"c", "a", "n">>
    /\ \E e \in 4..Len(name) :
        /\ \A i \in 4..e : name[i] \in Digits
        /\ \/ e = Len(name)
           \/ e = Len(name) - 1 /\ name[Len(name)] = NL

\* MotorConfig.__post_init__, lines 76-81: the error it raises, or "ok"
post_init(motorId, canInterface) ==
    IF ~(1 <= motorId /\ motorId <= 32) THEN "ValueError"
    ELSE IF ~MatchesPattern(canInterface) THEN "ValueError"
    ELSE "ok"

\* the arguments tried
MotorIds == -1..34
InterfaceNames == { <<"c", "a", "n", "0">>, <<"c", "a", "n", "1", "2">>,
                    <<"c", "a", "n">>, <<"v", "c", "a", "n", "0">>,
                    <<"c", "a", "n", "0", " ">>, <<"c", "a", "n", "0", NL>>,
                    <<"c", "a", "n", "0", "x">>, <<"C", "A", "N", "0">>,
                    <<"c", "a", "n", "-", "1">>, <<"e", "t", "h", "0">>, <<>>,
                    <<"c", "a", "n", NL>>, <<"c", "a", "n", "0", NL, NL>> }

NoSession == UNCHANGED <<sessionVars, snapshotVars, driverVars, historyVars, scope,
                         pending>>

\* the caller constructs MotorConfig(motorId=..., canInterface=...)
NewConfig ==
    \E motorId \in MotorIds, canInterface \in InterfaceNames :
        /\ pc = "idle"
        /\ pc' = "post_init"
        /\ call' = [op |-> "MotorConfig", motorId |-> motorId,
                    canInterface |-> canInterface]
        /\ result' = NoResult
        /\ NoSession

\* the caller constructs Motor(motorId=..., canInterface=...): line 207
NewMotor ==
    \E motorId \in MotorIds, canInterface \in InterfaceNames :
        /\ pc = "idle"
        /\ pc' = "post_init"
        /\ call' = [op |-> "Motor", motorId |-> motorId,
                    canInterface |-> canInterface]
        /\ result' = NoResult
        /\ NoSession

\* __post_init__ runs at the end of the generated __init__: the configuration
\* is returned, or the constructor ends with the error; in Motor.__init__ the
\* error leaves line 207 before any field of the session is set
PostInit ==
    /\ pc = "post_init"
    /\ LET outcome == post_init(call.motorId, call.canInterface)
       IN  IF outcome = "ok" /\ call.op = "Motor"
           THEN pc' = "motor_init" /\ UNCHANGED <<call, result>>
           ELSE /\ pc' = "idle"
                /\ call' = NoCall
                /\ result' = [op |-> call.op, outcome |-> outcome,
                              value |-> IF outcome = "ok"
                                        THEN {[motorId |-> call.motorId,
                                               canInterface |-> call.canInterface]}
                                        ELSE {}]
    /\ NoSession

\* lines 217-242: the fields of the session, the CAN set-up and the driver,
\* whose constructor may raise
MotorInit ==
    /\ pc = "motor_init"
    /\ pc' = "idle"
    /\ call' = NoCall
    /\ \E ok \in BOOLEAN :
        result' = [op |-> "Motor", outcome |-> IF ok THEN "ok" ELSE "DriverError",
                   value |-> IF ok THEN {[motorId |-> call.motorId,
                                          canInterface |-> call.canInterface]}
                             ELSE {}]
    /\ NoSession

ConfigNext == NewConfig \/ NewMotor \/ PostInit \/ MotorInit

ConfigSpec == Init /\ [][ConfigNext]_vars

---------------------------------------------------------------------------
(* TrajectoryGenerator called on its own *)

TrajStarts == {R(-2), R(0), R(1)}
TrajEnds == {Norm(-7, 4), R(0), R(2)}
TrajTimes == {Norm(k, 4) : k \in 0..9}
TrajDurations == {Norm(k, 4) : k \in -1..8}

\* the caller calls TrajectoryGenerator.<type>(startPos, endPos, currentTime,
\* totalDuration); the profiles keep no state, so one call from the initial
\* state is every call
NewTrajectoryPoint ==
    \E type \in TrajectoryTypes, startPos \in TrajStarts, endPos \in TrajEnds,
       currentTime \in TrajTimes, totalDuration \in TrajDurations :
        /\ pc = "idle"
        /\ result = NoResult
        /\ pc' = "generate"
        /\ call' = [op |-> type, startPos |-> startPos, endPos |-> endPos,
                    currentTime |-> currentTime, totalDuration |-> totalDuration]
        /\ result' = NoResult
        /\ NoSession

\* the profile returns (position, velocity)
Generate ==
    /\ pc = "generate"
    /\ pc' = "idle"
    /\ call' = NoCall
    /\ result' = [op |-> call.op, outcome |-> "ok",
                  value |-> {trajFunc(call.op, call.startPos, call.endPos,
                                      call.currentTime, call.totalDuration)}]
    /\ NoSession

TrajNext == NewTrajectoryPoint \/ Generate

TrajSpec == Init /\ [][TrajNext]_vars

---------------------------------------------------------------------------
(* smooth_transition of demos/demo_ergo_test.py.  Angles and the zone width  *)
(* are counted in units of pi (np.pi is 1, two_pi is 2), the arithmetic is   *)
(* exact, and np.cos(np.pi * ratio) is taken at the ratios where it is       *)
(* rational.                                                                 *)

Third == Norm(1, 3)
Half == Norm(1, 2)

\* the ratios at which cos(pi * ratio) is rational, and its value there
CosPiTable == [ratio \in {Zero, Third, Half, Norm(2, 3), R(1)} |->
                 IF ratio = Zero THEN R(1)
                 ELSE IF ratio = Third THEN Half
                 ELSE IF ratio = Half THEN Zero
                 ELSE IF ratio = Norm(2, 3) THEN Norm(-1, 2)
                 ELSE R(-1)]

\* np.cos(np.pi * ratio)
CosPi(ratio) == CosPiTable[ratio]

\* x % y of Python for y > 0: x - y * floor(x / y)
Floor(x) == IF x[1] >= 0 THEN x[1] \div x[2] ELSE -((-x[1] + x[2] - 1) \div x[2])
PyMod(x, y) == RSub(x, RMul(y, R(Floor(RDiv(x, y)))))

\* lines 49, 58: cosine = (1 - np.cos(np.pi * ratio)) / 2
Cosine(ratio) == RDiv(RSub(R(1), CosPi(ratio)), R(2))

\* the second window blended as the first
SecondWindowAsFirst(tAssist, tResist, cosine) ==
    RAdd(RMul(tAssist, RSub(R(1), cosine)), RMul(tResist, cosine))

\* line 50: tAssist * (1 - cosine) + tResist * cosine
FirstWindowTorque(tAssist, tResist, cosine) ==
    RAdd(RMul(tAssist, RSub(R(1), cosine)), RMul(tResist, cosine))

\* line 59: tResist * (1 - cosine) + tAssist * cosine
SecondWindowTorque(tAssist, tResist, cosine) ==
    RAdd(RMul(tResist, RSub(R(1), cosine)), RMul(tAssist, cosine))

\* lines 19-65: <<"ok", torque>>, or the error of the division by a zero zone
smooth_transition(angle, tAssist, tResist, zone) ==
    LET two_pi == R(2)
        pi == R(1)
        half_zone == RDiv(zone, R(2))
        wrappedAngle == PyMod(angle, two_pi)
        wrapped == IF RLeq(wrappedAngle, pi) THEN wrappedAngle
                   ELSE RSub(wrappedAngle, two_pi)
    IN  IF /\ RLeq(RSub(pi, half_zone), wrappedAngle)
           /\ RLeq(wrappedAngle, RAdd(pi, half_zone))
        THEN IF zone = Zero THEN <<"ZeroDivisionError">>
             ELSE LET ratio == RDiv(RSub(wrappedAngle, RSub(pi, half_zone)), zone)
                  IN  <<"ok", FirstWindowTorque(tAssist, tResist, Cosine(ratio))>>
        ELSE IF RLeq(RAbs(wrapped), half_zone)
        THEN IF zone = Zero THEN <<"ZeroDivisionError">>
             ELSE LET ratio == RDiv(RAdd(wrapped, half_zone), zone)
                  IN  <<"ok", SecondWindowTorque(tAssist, tResist, Cosine(ratio))>>
        ELSE IF RLess(wrappedAngle, pi) THEN <<"ok", tAssist>>
        ELSE <<"ok", tResist>>

\* the arguments tried: zone widths below pi, and for each the angles at the
\* tabled ratios of both windows, just outside their edges and far from them,
\* each also one turn below and one turn above
Zones == {Norm(-1, 2), Zero, Third, Half, Norm(2, 3)}
AssistTorques == {R(15), R(0), R(-5)}
ResistTorques == {R(-5), R(0), R(15)}
Margin == Norm(1, 100)
AnglesIn(zone) ==
    LET lo1 == RSub(R(1), RDiv(zone, R(2)))
        hi1 == RAdd(R(1), RDiv(zone, R(2)))
        lo2 == RSub(R(2), RDiv(zone, R(2)))
        hi2 == RDiv(zone, R(2))
    IN  {RAdd(lo1, RMul(ratio, zone)) : ratio \in DOMAIN CosPiTable}
        \cup {RAdd(lo2, RMul(ratio, zone)) : ratio \in DOMAIN CosPiTable}
        \cup {RSub(lo1, Margin), RAdd(hi1, Margin), RSub(lo2, Margin), RAdd(hi2, Margin)}
        \cup {Zero, Half, R(1), Norm(3, 2)}
Angles(zone) == {RAdd(angle, R(2 * turn)) : angle \in AnglesIn(zone), turn \in -1..1}

\* the caller calls smooth_transition(angle, tAssist, tResist, zone)
NewTorquePoint ==
    \E zone \in Zones, tAssist \in AssistTorques, tResist \in ResistTorques :
      \E angle \in Angles(zone) :
        /\ pc = "idle"
        /\ pc' = "transition"
        /\ call' = [op |-> "smooth_transition", angle |-> angle, tAssist |-> tAssist,
                    tResist |-> tResist, zone |-> zone]
        /\ result' = NoResult
        /\ NoSession

\* the function returns the torque, or raises
Transition ==
    /\ pc = "transition"
    /\ pc' = "idle"
    /\ call' = NoCall
    /\ LET out == smooth_transition(call.angle, call.tAssist, call.tResist, call.zone)
       IN  result' = [op |-> "smooth_transition", outcome |-> out[1],
                      value |-> IF out[1] = "ok" THEN {out[2]} ELSE {}]
    /\ NoSession

TorqueNext == NewTorquePoint \/ Transition

TorqueSpec == Init /\ [][TorqueNext]_vars

---------------------------------------------------------------------------
(* Properties *)

\* the methods guarded by "Motor not enabled"
GuardedOps == {"update", "track_trajectory", "set_velocity", "set_torque",
               "send_command", "zero_position"}

\* the driver calls that write to the actuator
WriteCalls == {"setGains", "position", "velocity", "torque", "commit"}

\* this step is the caller calling one of ops (the call begins, or it begins
\* and ends in the step)
Calls(ops) == pc = "idle" /\ (call'.op \in ops \/ result'.op \in ops)

\* the driver calls made in this step
NewCalls == IF pc = "idle" THEN trace'
            ELSE SubSeq(trace', Len(trace) + 1, Len(trace'))

StepTrace == <<"setGains", "position", "velocity", "torque", "commit">>

\* C1: in UNPOWERED, update(), track_trajectory(), set_velocity(),
\* set_torque(), send_command() and zero_position(), whatever their arguments,
\* end at once with the not-enabled error, make no driver call, and leave the
\* power state, the snapshot and the driver's gains and references as they were.
C1_UnpoweredCallsFail ==
    [][ (Calls(GuardedOps) /\ ~isEnabled) =>
          /\ result'.op \in GuardedOps
          /\ result'.outcome = "NotEnabled"
          /\ call' = NoCall
          /\ trace' = <<>> /\ committed' = {} /\ lastRead' = "none"
          /\ UNCHANGED <<isEnabled, uptime, snapshotVars, driverVars>> ]_vars

C1_Witness ==
    /\ result = [op |-> "track_trajectory", outcome |-> "NotEnabled", value |-> {}]
    /\ ~isEnabled /\ trace = <<>> /\ Snapshot \in Feedback

\* C2: in every step of every run, the snapshot changes, and a driver write
\* (gains, a staged reference, a commit) is made, only while the session is
\* POWERED before and after the step.
C2_WritesOnlyWhilePowered ==
    [][ (\/ \E i \in DOMAIN NewCalls : NewCalls[i] \in WriteCalls
         \/ Snapshot' # Snapshot
         \/ gains' # gains
         \/ staged' # staged) => (isEnabled /\ isEnabled') ]_vars

C2_Witness ==
    /\ isEnabled /\ pc = "velocity_sleep"
    /\ trace = <<"setGains", "position", "velocity", "torque", "commit">>
    /\ lastRead = "fresh" /\ Snapshot \in Feedback

\* C3: enable() called in POWERED (by the caller or by __enter__) returns at
\* once: no driver call, no feedback read, the power state, the power-on
\* timestamp and the snapshot unchanged.
C3_EnableTwiceIsNoOp ==
    [][ (/\ pc \in {"idle", "enter"}
         /\ isEnabled
         /\ (call'.op = "enable" \/ result'.op \in {"enable", "__enter__"})) =>
          /\ result'.outcome = "ok"
          /\ call' = NoCall
          /\ trace' = <<>> /\ committed' = {} /\ lastRead' = "none"
          /\ uptime' # 0
          /\ UNCHANGED <<isEnabled, uptime, snapshotVars, driverVars>> ]_vars

C3_Witness ==
    /\ result = [op |-> "enable", outcome |-> "ok", value |-> {}]
    /\ isEnabled /\ trace = <<>> /\ uptime # 0

\* where enable() stands after each of its steps
EnableOrder ==
    /\ pc = "enable_mark" => trace = <<"powerOn">> /\ ~isEnabled /\ uptime # 0
    /\ pc = "enable_settle" => trace = <<"powerOn">> /\ isEnabled /\ uptime = 0
    /\ pc = "enable_update" => trace = <<"powerOn">> /\ isEnabled /\ lastRead = "none"
    /\ (result.op \in {"enable", "__enter__"} /\ result.outcome = "ok" /\ trace # <<>>) =>
          /\ trace = <<"powerOn", "commit">>
          /\ isEnabled
          /\ lastRead \in {"fresh", "partial", "stale"}

\* C4: an enable() from UNPOWERED whose power-on succeeds calls the driver's
\* power-on, then records the timestamp, then (after the delay) makes exactly
\* one commit, and returns normally in POWERED, whether or not that commit
\* failed.
C4_EnableSequence ==
    /\ []EnableOrder
    /\ [][ pc = "enable_update" =>
             /\ result'.op \in {"enable", "__enter__"}
             /\ result'.outcome = "ok"
             /\ pc' = "idle"
             /\ isEnabled'
             /\ trace' = <<"powerOn", "commit">> ]_vars

C4_Witness ==
    /\ result = [op |-> "enable", outcome |-> "ok", value |-> {}]
    /\ trace = <<"powerOn", "commit">> /\ lastRead = "stale"
    /\ isEnabled /\ Snapshot = ZeroSnapshot

\* C5: when the driver's power-on fails, enable() ends with that error, the
\* session UNPOWERED, no timestamp recorded and no commit made; and every
\* enable() called in UNPOWERED goes on to the driver's power-on.
C5_PowerOnFailure ==
    /\ [][ (pc = "enable_powerOn" /\ pc' # "enable_mark") =>
             /\ result'.op \in {"enable", "__enter__"}
             /\ result'.outcome = "DriverError"
             /\ trace' = <<"powerOn">> /\ committed' = {} /\ lastRead' = "none"
             /\ ~isEnabled' /\ uptime' # 0
             /\ UNCHANGED <<isEnabled, uptime, snapshotVars, driverVars>> ]_vars
    /\ [][ (/\ pc \in {"idle", "enter"}
            /\ ~isEnabled
            /\ (call'.op = "enable" \/ result'.op \in {"enable", "__enter__"})) =>
             pc' = "enable_powerOn" ]_vars
    /\ [][ pc = "enable_powerOn" => trace' = <<"powerOn">> ]_vars

C5_Witness ==
    /\ result = [op |-> "enable", outcome |-> "DriverError", value |-> {}]
    /\ ~isEnabled /\ trace = <<"powerOn">> /\ Snapshot \in Feedback

\* C6: whenever disable() has returned the session is UNPOWERED, also when the
\* driver's power-off raised; and from UNPOWERED it made no driver call.
C6_DisableLeavesUnpowered ==
    result.op = "disable" =>
        /\ ~isEnabled
        /\ trace \in {<<>>, <<"powerOff">>}

\* C7: disable() returns normally in every state, also when the driver's
\* power-off raised; called by __exit__, it adds no error to the with-statement.
C7_DisableNeverRaises ==
    /\ [](result.op = "disable" => result.outcome = "ok")
    /\ [][ pc = "disable_powerOff" =>
             /\ pc' = "idle"
             /\ trace' = <<"powerOff">>
             /\ IF scope = "exiting"
                THEN result' = [op |-> "with",
                                outcome |-> IF pending = "none" THEN "ok" ELSE pending,
                                value |-> {}]
                ELSE result' = [op |-> "disable", outcome |-> "ok", value |-> {}] ]_vars

C7_Witness ==
    /\ result = [op |-> "disable", outcome |-> "ok", value |-> {}]
    /\ trace = <<"powerOff">> /\ isEnabled

\* C8: after a with-statement is left, normally or by an error of its body,
\* disable() has run and the session is UNPOWERED, and the body's error is the
\* outcome of the statement.
C8_ScopeLeavesUnpowered ==
    /\ [](result.op = "with" => ~isEnabled)
    /\ [][ (scope = "exiting" /\ scope' = "none") =>
             result'.outcome = (IF pending = "none" THEN "ok" ELSE pending) ]_vars

StepTolerance == Norm(5, 100)

InStepCommand ==
    \/ pc = "track_trajectory" /\ RLeq(call.duration, STEP_COMMAND_THRESHOLD)
    \/ pc = "track_step"

\* C11 as stated: a step command issued in POWERED ends with a normal return,
\* whatever the driver does.
C11_StepAlwaysReturnsNormally ==
    [][ (InStepCommand /\ call' = NoCall) => result'.outcome = "ok" ]_vars

\* C11 as amended: a step command issued in POWERED ends after one gain
\* arming, its reference writes and one commit, with no waiting; it returns
\* normally whenever the commit is reached, also when the commit fails and
\* whatever the position read, and raises only the driver's error of the gain
\* arming or of a reference write.
C11_StepReturnsUnlessDriverRaises ==
    /\ [][ (pc = "track_trajectory" /\ RLeq(call.duration, STEP_COMMAND_THRESHOLD)) =>
             \/ pc' = "track_step" /\ trace' = <<"setGains">>
             \/ /\ call' = NoCall
                /\ result'.outcome = "DriverError"
                /\ trace' = <<"setGains">> ]_vars
    /\ [][ pc = "track_step" =>
             /\ call' = NoCall
             /\ pc' \in {"idle", "exit"}
             /\ UNCHANGED uptime
             /\ result'.op = "track_trajectory"
             /\ result'.outcome \in {"ok", "DriverError"}
             /\ result'.outcome = "ok" <=> trace'[Len(trace')] = "commit"
             /\ result'.outcome = "DriverError" => committed' = {} ]_vars

C11_Witness ==
    /\ result = [op |-> "track_trajectory", outcome |-> "ok", value |-> {}]
    /\ trace = StepTrace
    /\ lastRead = "stale"
    /\ committed = {[position |-> R(2), velocity |-> Zero, torque |-> Zero]}
    /\ lastPosition = Zero

\* C12: whenever a track_trajectory() that entered the trajectory loop (duration
\* above the threshold, known profile) returns normally, the references staged
\* and the command committed last are the exact goal position with zero
\* velocity and zero torque, whatever the profile and the number of ticks.
C12_FinalCommandIsGoal ==
    [][ (pc = "track_loop" /\ call' = NoCall /\ result'.outcome = "ok") =>
          /\ result'.op = "track_trajectory"
          /\ call.trajectoryType \in TrajectoryTypes
          /\ ~RLeq(call.duration, STEP_COMMAND_THRESHOLD)
          /\ staged' = [position |-> call.targetPos, velocity |-> Zero, torque |-> Zero]
          /\ committed' = {staged'}
          /\ trace'[Len(trace')] = "commit" ]_vars

C12_Witness ==
    /\ result = [op |-> "track_trajectory", outcome |-> "ok", value |-> {}]
    /\ Len(trace) = 13
    /\ committed = {[position |-> R(2), velocity |-> Zero, torque |-> Zero]}
    /\ staged = [position |-> R(2), velocity |-> Zero, torque |-> Zero]
    /\ lastPosition = R(1)

\* the trajectory loop is left without a tick
C12_ZeroTicks ==
    /\ pc = "track_loop" /\ trace = <<"setGains">>
    /\ ~RLess(Elapsed, call.duration)

\* C13: in a set_velocity() or set_torque() with duration > 0, every command
\* committed in the hold loop carries the target value, and when the call
\* returns normally the command committed last is the stop command: zero
\* velocity for set_velocity, zero torque for set_torque.
C13_HoldThenStop ==
    /\ [][ (pc = "velocity_loop" /\ pc' = "velocity_sleep") =>
             /\ RLess(Zero, call.duration)
             /\ committed' = {[position |-> lastPosition, velocity |-> call.targetVel,
                               torque |-> Zero]} ]_vars
    /\ [][ (pc = "torque_loop" /\ pc' = "torque_sleep") =>
             /\ RLess(Zero, call.duration)
             /\ committed' = {[position |-> lastPosition, velocity |-> Zero,
                               torque |-> call.targetTorque]} ]_vars
    /\ [][ (pc = "velocity_loop" /\ call' = NoCall /\ result'.outcome = "ok") =>
             /\ result'.op = "set_velocity"
             /\ trace'[Len(trace')] = "commit"
             /\ committed' = {[position |-> lastPosition, velocity |-> Zero,
                               torque |-> Zero]} ]_vars
    /\ [][ (pc = "torque_loop" /\ call' = NoCall /\ result'.outcome = "ok") =>
             /\ result'.op = "set_torque"
             /\ trace'[Len(trace')] = "commit"
             /\ committed' = {[staged EXCEPT !.torque = Zero]} ]_vars

C13_Witness ==
    /\ result = [op |-> "set_velocity", outcome |-> "ok", value |-> {}]
    /\ Len(trace) = 13
    /\ trace[6] = "position" /\ trace[9] = "commit"
    /\ committed = {[position |-> R(1), velocity |-> Zero, torque |-> Zero]}

\* the last step of a single-shot call: it ends there, no time passes, and when
\* it returns normally the driver saw one gain arming, the three references and
\* one commit, and cmd is what is committed and stays staged
SingleShot(at, cmd) ==
    pc = at =>
        /\ call' = NoCall
        /\ pc' \in {"idle", "exit"}
        /\ UNCHANGED <<uptime, gains>>
        /\ result'.outcome = "ok" =>
             /\ trace' = StepTrace
             /\ committed' = {cmd}
             /\ staged' = cmd

\* C14: set_velocity() and set_torque() with duration <= 0, and send_command(),
\* go from the gain arming straight to one staging of the target command and
\* one commit, and return without a loop, a sleep or a stop command: the target
\* command is the one committed and left staged.
C14_SingleShotCommands ==
    /\ [][ (pc = "set_velocity" /\ RLeq(call.duration, Zero) /\ call' # NoCall) =>
             pc' = "velocity_single" /\ trace' = <<"setGains">> ]_vars
    /\ [][ (pc = "set_torque" /\ RLeq(call.duration, Zero) /\ call' # NoCall) =>
             pc' = "torque_single" /\ trace' = <<"setGains">> ]_vars
    /\ [][ (pc = "send_command" /\ call' # NoCall) =>
             pc' = "send_stage" /\ trace' = <<"setGains">> ]_vars
    /\ [][ SingleShot("velocity_single",
                      [position |-> lastPosition, velocity |-> call.targetVel,
                       torque |-> Zero]) ]_vars
    /\ [][ SingleShot("torque_single",
                      [position |-> lastPosition, velocity |-> Zero,
                       torque |-> call.targetTorque]) ]_vars
    /\ [][ SingleShot("send_stage",
                      [position |-> call.targetPos, velocity |-> call.targetVel,
                       torque |-> call.targetTorque]) ]_vars

C14_Witness ==
    /\ result = [op |-> "set_velocity", outcome |-> "ok", value |-> {}]
    /\ trace = StepTrace
    /\ committed = {[position |-> R(2), velocity |-> R(1), torque |-> Zero]}
    /\ staged = [position |-> R(2), velocity |-> R(1), torque |-> Zero]
    /\ gains = [K |-> Zero, B |-> defaultKd]

LoopOps == {"track_trajectory", "set_velocity", "set_torque"}
LoopAt == {"track_loop", "velocity_loop", "torque_loop"}

\* the sleep that follows a tick of the loop
SleepOf(at) == IF at = "track_loop" THEN "track_sleep"
               ELSE IF at = "velocity_loop" THEN "velocity_sleep"
               ELSE "torque_sleep"

\* the commit of this step failed
CommitFailed ==
    /\ Len(trace') > Len(trace)
    /\ trace'[Len(trace')] = "commit"
    /\ lastRead' = "stale"

\* C15: when the commit of a tick of a track_trajectory, set_velocity or
\* set_torque loop fails, nothing is raised: the snapshot stays as it was and
\* the loop goes on to its sleep and the next tick; when the commit of the final
\* goal or stop command fails, the workflow returns normally all the same; no
\* error of these workflows comes from a commit.
C15_TickFailureAbsorbed ==
    /\ [][ (pc \in LoopAt /\ RLess(Elapsed, call.duration) /\ CommitFailed) =>
             /\ pc' = SleepOf(pc)
             /\ call' = call
             /\ result' = NoResult
             /\ UNCHANGED <<isEnabled, snapshotVars>> ]_vars
    /\ [][ (pc \in LoopAt /\ ~RLess(Elapsed, call.duration) /\ CommitFailed) =>
             /\ call' = NoCall
             /\ result' = [op |-> call.op, outcome |-> "ok", value |-> {}]
             /\ UNCHANGED <<isEnabled, snapshotVars>> ]_vars
    /\ []((result.op \in LoopOps /\ result.outcome = "DriverError") =>
             trace[Len(trace)] # "commit")

C15_Witness ==
    /\ pc = "torque_sleep"
    /\ call.op = "set_torque"
    /\ Len(trace) = 9
    /\ lastRead = "stale"
    /\ Snapshot \in Feedback

\* C16: when a workflow loop is cancelled from outside during a tick, control
\* returns to the caller only after the stop command: the command committed
\* last has zero velocity and zero torque.
C16_CancelledLoopStops ==
    [][ (/\ pc \in {"track_sleep", "velocity_sleep", "torque_sleep"}
         /\ call' = NoCall
         /\ result'.outcome = "KeyboardInterrupt") =>
          \A c \in committed' : c.velocity = Zero /\ c.torque = Zero ]_vars

\* a well-formed interface name: can followed by one or more digits
WellFormedName(name) ==
    /\ Len(name) >= 4
    /\ SubSeq(name, 1, 3) = <<"c", "a", "n">>
    /\ \A i \in 4..Len(name) : name[i] \in Digits

\* C17: a configuration with a bus address outside 1..32 or with a malformed
\* interface name is refused with an error, in MotorConfig() and in Motor(),
\* where no session is made; every address in 1..32 with a well-formed name is
\* accepted.
C17_ConfigValidated ==
    [][ pc = "post_init" =>
          IF call.motorId \in 1..32 /\ WellFormedName(call.canInterface)
          THEN \/ pc' = "motor_init"
               \/ result'.outcome = "ok"
          ELSE /\ pc' = "idle"
               /\ result' = [op |-> call.op, outcome |-> "ValueError", value |-> {}] ]_vars

RMin(a, b) == IF RLess(a, b) THEN a ELSE b
RMax(a, b) == IF RLess(a, b) THEN b ELSE a

\* C18: every profile returns exactly (endPos, 0) when currentTime >=
\* totalDuration, and for 0 <= currentTime < totalDuration a position between
\* startPos and endPos inclusive.
C18_ProfileClampedAndBounded ==
    [][ pc = "generate" =>
          \A out \in result'.value :
              IF RLeq(call.totalDuration, call.currentTime)
              THEN out = <<call.endPos, Zero>>
              ELSE /\ RLeq(RMin(call.startPos, call.endPos), out[1])
                   /\ RLeq(out[1], RMax(call.startPos, call.endPos)) ]_vars

\* the first half of C18 alone
C18_TerminalClamp ==
    [][ (pc = "generate" /\ RLeq(call.totalDuration, call.currentTime)) =>
          result'.value = {<<call.endPos, Zero>>} ]_vars

\* what C19 says of the torque returned for the arguments of the call, the
\* angle wrapped into [0, 2): within [min, max] of the two torques; Ta at the
\* start and Tr at the end of the window centred at 1; Tr at the lower and Ta at
\* the upper edge of the window centred at 0 and 2, the values of the step
\* beside them; outside both windows Ta in the upper half and Tr in the lower
TorqueAsClaimed ==
    LET a == PyMod(call.angle, R(2))
        hz == RDiv(call.zone, R(2))
        Ta == call.tAssist
        Tr == call.tResist
    IN  /\ result'.outcome = "ok"
        /\ \A t \in result'.value :
            /\ RLeq(RMin(Ta, Tr), t) /\ RLeq(t, RMax(Ta, Tr))
            /\ a = RSub(R(1), hz) => t = Ta
            /\ a = RAdd(R(1), hz) => t = Tr
            /\ a = RSub(R(2), hz) => t = Tr
            /\ a = hz => t = Ta
            /\ (RLess(hz, a) /\ RLess(a, RSub(R(1), hz))) => t = Ta
            /\ (RLess(RAdd(R(1), hz), a) /\ RLess(a, RSub(R(2), hz))) => t = Tr
        /\ result'.value # {}

UpdateRuns ==
    \/ Calls({"update"}) /\ isEnabled
    \/ pc # "idle" /\ Len(trace') > Len(trace) /\ trace'[Len(trace')] = "commit"

\* C20: after any update() in POWERED the four snapshot fields are either all
\* the values of one driver read or all unchanged from before the call: no
\* failure inside update() leaves some fields fresh and others stale.
C20_SnapshotAtomic ==
    [][ UpdateRuns => (Snapshot' \in Feedback \/ Snapshot' = Snapshot) ]_vars

\* the two ends of C20 that the code keeps: a read that goes through overwrites
\* all four fields, a failed self._manager.update() none
C20_WholeOrNothing ==
    [][ UpdateRuns => /\ lastRead' = "fresh" => Snapshot' \in Feedback
                      /\ lastRead' = "stale" => Snapshot' = Snapshot ]_vars

\* the command workflows, and where each arms its gains and stages references
CommandOps == {"track_trajectory", "set_velocity", "set_torque", "send_command"}
StagingAt == {"track_step", "track_loop", "velocity_single", "velocity_loop",
              "torque_single", "torque_loop", "send_stage"}

\* the gains of the mode of the workflow with the locals c
ModeGains(c) ==
    IF c.op \in {"track_trajectory", "send_command"} THEN [K |-> c.kp, B |-> c.kd]
    ELSE IF c.op = "set_velocity" THEN [K |-> Zero, B |-> c.kd]
    ELSE [K |-> Zero, B |-> Zero]

\* the workflow the recorded driver calls belong to
CurrentOp == IF call.op # "none" THEN call.op ELSE result.op

\* C21: in every command workflow the gain arming is the first driver call,
\* before every staged reference and every commit of the call, and arms the
\* gains of the workflow's mode: (kp, kd) for track_trajectory and send_command,
\* (0, kd) for set_velocity, (0, 0) for set_torque; every commit of the call is
\* made under those gains, and within every tick the three references are
\* staged before the commit.
C21_GainsArmedFirst ==
    /\ [](CurrentOp \in CommandOps =>
            \A i \in 1..Len(trace) : (trace[i] = "setGains") <=> (i = 1))
    /\ [][ (pc \in CommandOps) =>
             (/\ trace' = <<"setGains">>
              /\ (result'.outcome # "DriverError" => gains' = ModeGains(call))) ]_vars
    /\ [][ (pc \in StagingAt) =>
             (/\ UNCHANGED gains
              /\ ((Len(trace') > Len(trace) /\ trace'[Len(trace')] = "commit") =>
                    (/\ gains = ModeGains(call)
                     /\ NewCalls =
                          IF pc = "torque_loop" /\ ~RLess(Elapsed, call.duration)
                          THEN <<"torque", "commit">>
                          ELSE <<"position", "velocity", "torque", "commit">>))) ]_vars

C21_Witness ==
    /\ result = [op |-> "set_velocity", outcome |-> "ok", value |-> {}]
    /\ gains = [K |-> Zero, B |-> defaultKd]
    /\ Len(trace) = 13

\* the references of the tick made at track_loop: the profile of the call at
\* the elapsed time
TickReference ==
    LET pv == trajFunc(call.trajectoryType, call.startPos, call.targetPos,
                       Elapsed, call.duration)
    IN  [position |-> pv[1], velocity |-> pv[2], torque |-> Zero]

\* the parts of C22 that do not rest on the clock: a duration at or below the
\* threshold goes to the step sub-mode and never to the loop, the loop is
\* entered with the snapshot position as start position, which stays fixed,
\* and a tick stages the profile's value for a duration above zero and an
\* elapsed time below the duration
C22_RoutingAndStart ==
    /\ [][ (pc = "idle" /\ pc' = "track_trajectory") => UNCHANGED snapshotVars ]_vars
    /\ [][ (pc = "track_trajectory" /\ IsStepCommand(call.duration)) =>
             pc' \in {"track_step", "idle", "exit"} ]_vars
    /\ [][ (pc = "track_trajectory" /\ pc' = "track_loop") =>
             (call'.startPos = lastPosition /\ UNCHANGED lastPosition) ]_vars
    /\ [][ (pc \in {"track_loop", "track_sleep"} /\ pc' \in {"track_loop", "track_sleep"}) =>
             (/\ call'.startPos = call.startPos
              /\ call'.duration = call.duration) ]_vars
    /\ [][ (pc = "track_loop" /\ pc' = "track_sleep") =>
             (/\ staged' = TickReference
              /\ RLess(Zero, call.duration)
              /\ RLess(Elapsed, call.duration)) ]_vars

\* C22: track_trajectory() never invokes a profile with totalDuration <= 0 or
\* currentTime >= totalDuration: every duration at or below the step threshold
\* goes to the step sub-mode, and every in-loop reference is computed for an
\* elapsed time t with 0 <= t < duration, with the start position fixed to the
\* snapshot position at the moment the workflow began.
C22_ProfileArguments ==
    /\ C22_RoutingAndStart
    /\ [][ (pc = "track_loop" /\ pc' = "track_sleep") => RLeq(Zero, Elapsed) ]_vars

\* ceil(d / CONTROL_LOOP_PERIOD), for d > 0
CeilTicks(d) == (d[1] * CONTROL_LOOP_FREQUENCY + d[2] - 1) \div d[2]

\* the ticks a timed loop has made: each tick makes the three assignments and
\* the commit after the one call that armed the gains
TicksMade == (Len(trace) - 1) \div 4

InTimedLoop == pc \in LoopAt \cup {"track_sleep", "velocity_sleep", "torque_sleep"}

\* C23: with a clock that advances by at least the control period on every
\* tick, every timed loop terminates; it makes at most ceil(duration / period)
\* ticks, leaves the loop once the elapsed time has reached the duration, and
\* does not leave it before unless an error propagates.
C23_LoopsTerminate ==
    /\ InTimedLoop ~> call = NoCall
    /\ [](InTimedLoop => TicksMade <= CeilTicks(call.duration))
    /\ [][ (pc \in LoopAt /\ Len(trace') > Len(trace) /\ RLeq(call.duration, Elapsed)) =>
             call' = NoCall ]_vars
    /\ [][ (InTimedLoop /\ call' = NoCall /\ result'.outcome = "ok") =>
             (pc \in LoopAt /\ RLeq(call.duration, Elapsed)) ]_vars

C23_Witness ==
    /\ result = [op |-> "set_torque", outcome |-> "ok", value |-> {}]
    /\ TicksMade = MaxDuration

NamedProfiles == {"minimum_jerk", "cubic", "linear"}

\* track_trajectory() ends in this step with an error, having made no call of
\* the driver but the arming of the gains: no reference staged, none
\* committed, power state and snapshot as they were
FailsBeforeAnyReference ==
    /\ call' = NoCall
    /\ result'.outcome \in {"ValueError", "DriverError"}
    /\ trace' = <<"setGains">>
    /\ committed' = {}
    /\ UNCHANGED <<staged, isEnabled, snapshotVars>>

\* C25 as stated: track_trajectory() in POWERED with a trajectoryType other
\* than minimum_jerk, cubic or linear fails with an error before any reference
\* is staged or committed and leaves the power state and the snapshot
\* unchanged, for every duration.
C25_UnknownTypeFails ==
    [][ (pc = "track_trajectory" /\ call.trajectoryType \notin NamedProfiles) =>
          FailsBeforeAnyReference ]_vars

\* C25 as amended: with a duration above the step threshold the unknown
\* trajectoryType fails so, and a ValueError has no other origin; with a
\* duration at or below the threshold the type is not looked at: unless the
\* driver raises the step command goes on, and when it returns normally the
\* goal position has been committed.
C25_UnknownTypeFailsAboveThreshold ==
    /\ [][ (/\ pc = "track_trajectory"
            /\ call.trajectoryType \notin NamedProfiles
            /\ RLess(STEP_COMMAND_THRESHOLD, call.duration)) =>
             FailsBeforeAnyReference ]_vars
    /\ [][ (result'.outcome = "ValueError" /\ call' = NoCall /\ call.op = "track_trajectory") =>
             /\ pc = "track_trajectory"
             /\ call.trajectoryType \notin NamedProfiles
             /\ RLess(STEP_COMMAND_THRESHOLD, call.duration) ]_vars
    /\ [][ (/\ pc = "track_trajectory"
            /\ call.trajectoryType \notin NamedProfiles
            /\ RLeq(call.duration, STEP_COMMAND_THRESHOLD)
            /\ call' # NoCall) => (pc' = "track_step" /\ call' = call) ]_vars
    /\ [][ (/\ pc = "track_step"
            /\ call.trajectoryType \notin NamedProfiles
            /\ result'.outcome = "ok") =>
             committed' = {[position |-> call.targetPos, velocity |-> Zero,
                            torque |-> Zero]} ]_vars

C25_Witness ==
    /\ result = [op |-> "track_trajectory", outcome |-> "ValueError", value |-> {}]
    /\ trace = <<"setGains">> /\ committed = {}
    /\ isEnabled /\ Snapshot \in Feedback
    /\ gains = [K |-> defaultKp, B |-> defaultKd]

====
